---- MODULE Spec2Model ----
(***************************************************************************)
(* A model of editor-lite (src/src/index.js): the Editor constructor, its  *)
(* DOM event handlers, the debounce helper behind auto-save, auto-sync and  *)
(* the key callbacks, the command dispatcher and the airbar controller.    *)
(*                                                                         *)
(* Time is the value of Date.now() in milliseconds.  A timer set with      *)
(* setTimeout(f, d) at time t has the deadline t + d; the host runs it at  *)
(* its deadline or later, never earlier.                                   *)
(***************************************************************************)
EXTENDS Integers, Sequences, FiniteSets, TLC

VARIABLES
    phase,       \* "new" before `new Editor(..)`, "ready" after, "threw" if it threw
    cfg,         \* the `opts` argument handed to the constructor
    opts,        \* this.opts after construction
    buttons,     \* this.buttons
    now,         \* Date.now()
    deb,         \* closure state of the debounced editor_auto(save|sync) listeners,
                 \* with the deadlines of the timers the host holds for each
    hist,        \* per listener: bookkeeping of the current burst of requests
    keydeb,      \* closure state of the debounced keyup / keydown / keypress
                 \* listeners, with the deadlines of the timers the host holds
    keyhist,     \* per key listener: bookkeeping of the current burst of events
    airActive,   \* this.airActive
    barClass,    \* TRUE iff opts.airbar carries the class 'active'
    sel,         \* the native selection
    html,        \* this.el.innerHTML, as a sequence of tokens
    inputValue,  \* opts.input.value, as a sequence of tokens
    lastOp,      \* the operation performed by the last step
    trace,       \* the observable effects of the last step, in order
    ret          \* what the last step returned: <<>> or <<value>>

vars == <<phase, cfg, opts, buttons, now, deb, hist, keydeb, keyhist, airActive,
          barClass, sel, html, inputValue, lastOp, trace, ret>>

----------------------------------------------------------------------------
(* Bounds of the model *)

TickMs == 500
MaxTicks == 8
MaxNow == MaxTicks * TickMs

\* intervals a caller may configure for autoSave / autoSync (0 = not configured)
AutoVals == {0, 500, 2000}

----------------------------------------------------------------------------
(* Constant tables of the program *)

Undefined == "undefined"

keys ==
    ( "85" :> "u" @@ "66" :> "b" @@ "73" :> "i" @@ "221" :> "in" @@ "219" :> "out"
   @@ "s55" :> "ol" @@ "s56" :> "ul" @@ "s69" :> "center" @@ "s74" :> "full"
   @@ "s76" :> "left" @@ "s82" :> "right" )

\* <<native command name, requires a selection>>
cmds ==
    ( "ul" :> <<"insertUnorderedList", FALSE>>
   @@ "ol" :> <<"insertOrderedList", FALSE>>
   @@ "u" :> <<"underline", TRUE>>
   @@ "b" :> <<"bold", TRUE>>
   @@ "i" :> <<"italic", TRUE>>
   @@ "a" :> <<"createLink", TRUE>>
   @@ "sub" :> <<"subscript", TRUE>>
   @@ "sup" :> <<"superscript", TRUE>>
   @@ "strike" :> <<"strikeThrough", TRUE>>
   @@ "center" :> <<"justifyCenter", FALSE>>
   @@ "right" :> <<"justifyRight", FALSE>>
   @@ "left" :> <<"justifyLeft", FALSE>>
   @@ "full" :> <<"justifyFull", FALSE>>
   @@ "out" :> <<"outdent", FALSE>>
   @@ "in" :> <<"indent", FALSE>> )

\* names every object literal inherits from Object.prototype: `cmds[tag]` is a
\* (truthy) function for them, whose [0] and [1] are undefined
ProtoKeys == {"constructor", "toString", "valueOf", "hasOwnProperty"}

\* the lower limit of the auto-save / auto-sync interval
MinInterval == 1500

Verbs == {"save", "sync"}

\* the event types with a debounced listener
KeyTypes == {"keyup", "keydown", "keypress"}

\* 'auto' + capitalize(evt)
AutoOp(evt) == IF evt = "save" THEN "autoSave" ELSE "autoSync"

\* funk(evt): 'on' + capitalize(evt)
funk(evt) ==
    CASE evt = "save" -> "onSave"
      [] evt = "sync" -> "onSync"
      [] evt = "blur" -> "onBlur"
      [] evt = "focus" -> "onFocus"
      [] evt = "keyup" -> "onKeyup"
      [] evt = "keydown" -> "onKeydown"
      [] evt = "keypress" -> "onKeypress"
      [] OTHER -> "on" \o evt

Max(a, b) == IF a >= b THEN a ELSE b

NoTimer == -1
NoTime == -1

----------------------------------------------------------------------------
(* HTML content.  A string is a sequence of tokens, each standing for the  *)
(* text written in it, except "LF" (a newline), "TAB" (a tab) and "x" (a   *)
(* character that is neither whitespace nor part of a tag or an entity).   *)

IsTag(t) == t \in {"<div>", "</div>", "<p>", "</p>", "<br>", "<br/>"}
IsSpace(t) == t \in {" ", "TAB", "LF"}

Drop(s, n) == SubSeq(s, n + 1, Len(s))

RECURSIVE Run(_, _)
\* the length of the longest prefix of s made of TABs (tabsOnly) or of whitespace
Run(s, tabsOnly) ==
    IF s # <<>> /\ (IF tabsOnly THEN s[1] = "TAB" ELSE IsSpace(s[1]))
    THEN 1 + Run(Tail(s), tabsOnly)
    ELSE 0

RECURSIVE RemoveEmpty(_)
\* .replace(/<div><\/div>|<p><\/p>/g, '')
RemoveEmpty(s) ==
    IF Len(s) < 2 THEN s
    ELSE IF <<s[1], s[2]>> \in {<<"<div>", "</div>">>, <<"<p>", "</p>">>}
         THEN RemoveEmpty(Drop(s, 2))
         ELSE <<s[1]>> \o RemoveEmpty(Tail(s))

RECURSIVE MapNbsp(_)
\* .replace(/&nbsp;/g, ' ')
MapNbsp(s) ==
    IF s = <<>> THEN <<>>
    ELSE <<IF s[1] = "&nbsp;" THEN " " ELSE s[1]>> \o MapNbsp(Tail(s))

\* this.el.innerHTML = str || ''
setHTML(str) == str

\* this.el.innerHTML
getHTML(h) == h

cleanHTML(h) ==
    LET a == SelectSeq(getHTML(h), LAMBDA t : t \notin {"LF", "<br>", "<br/>"})
    IN  MapNbsp(RemoveEmpty(a))

RECURSIVE TabsBeforeTag(_)
\* .replace(/[\t\t]+</g, '<')
TabsBeforeTag(s) ==
    IF s = <<>> THEN <<>>
    ELSE IF s[1] = "TAB"
         THEN LET n == Run(s, TRUE)
                  rest == Drop(s, n)
              IN  IF rest # <<>> /\ IsTag(rest[1])
                  THEN <<rest[1]>> \o TabsBeforeTag(Tail(rest))
                  ELSE SubSeq(s, 1, n) \o TabsBeforeTag(rest)
         ELSE <<s[1]>> \o TabsBeforeTag(Tail(s))

RECURSIVE TabsBetweenTags(_)
\* .replace(/>[\t\t]+</g, '><')
TabsBetweenTags(s) ==
    IF s = <<>> THEN <<>>
    ELSE LET n == Run(Tail(s), TRUE)
             rest == Drop(Tail(s), n)
         IN  IF IsTag(s[1]) /\ n > 0 /\ rest # <<>> /\ IsTag(rest[1])
             THEN <<s[1]>> \o TabsBetweenTags(rest)
             ELSE <<s[1]>> \o TabsBetweenTags(Tail(s))

RECURSIVE TrailingTabs(_)
\* the number of TABs that end s
TrailingTabs(s) ==
    IF s # <<>> /\ s[Len(s)] = "TAB" THEN 1 + TrailingTabs(SubSeq(s, 1, Len(s) - 1)) ELSE 0

\* .replace(/>[\t\t]+$/g, '>')
TabsAtEnd(s) ==
    LET n == TrailingTabs(s)
        body == SubSeq(s, 1, Len(s) - n)
    IN  IF n > 0 /\ body # <<>> /\ IsTag(body[Len(body)]) THEN body ELSE s

RECURSIVE ShrinkSpaces(_)
\* .replace(/\s\s+/g, ' ')
ShrinkSpaces(s) ==
    IF s = <<>> THEN <<>>
    ELSE LET n == Run(s, FALSE)
         IN  IF n >= 2 THEN <<" ">> \o ShrinkSpaces(Drop(s, n))
             ELSE <<s[1]>> \o ShrinkSpaces(Tail(s))

minifyHTML(h) == ShrinkSpaces(TabsAtEnd(TabsBetweenTags(TabsBeforeTag(cleanHTML(h)))))

\* tags the script pattern takes as opening (/<script[^>]*>/i) and as closing
\* (/<\/script[^>]*>/i)
IsOpen(t) == t \in {"<script>", "<SCRIPT src=a>", "<scriptx>"}
IsClose(t) == t \in {"</script>", "</SCRIPT >"}

\* the position of the first closing tag of s (0 if there is none)
FirstClose(s) ==
    IF \E j \in 1..Len(s) : IsClose(s[j])
    THEN CHOOSE j \in 1..Len(s) : IsClose(s[j]) /\ \A i \in 1..(j - 1) : ~IsClose(s[i])
    ELSE 0

\* the position of the last closing tag of s (0 if there is none)
LastClose(s) ==
    IF \E j \in 1..Len(s) : IsClose(s[j])
    THEN CHOOSE j \in 1..Len(s) : IsClose(s[j]) /\ \A i \in (j + 1)..Len(s) : ~IsClose(s[i])
    ELSE 0

RECURSIVE StripScriptsGreedy(_)
\* (mutant) the body of a block is matched greedily: [\S\s]* for [\S\s]*?
StripScriptsGreedy(s) ==
    IF s = <<>> THEN <<>>
    ELSE IF IsOpen(s[1]) /\ LastClose(Tail(s)) > 0
         THEN StripScriptsGreedy(Drop(Tail(s), LastClose(Tail(s))))
         ELSE <<s[1]>> \o StripScriptsGreedy(Tail(s))

RECURSIVE StripScripts(_)
\* .replace(/<script[^>]*>[\S\s]*?<\/script[^>]*>/ig, '')
StripScripts(s) ==
    IF s = <<>> THEN <<>>
    ELSE IF IsOpen(s[1]) /\ FirstClose(Tail(s)) > 0
         THEN StripScripts(Drop(Tail(s), FirstClose(Tail(s))))
         ELSE <<s[1]>> \o StripScripts(Tail(s))

safeHTML(h) == StripScripts(getHTML(h))

\* contents the element is given in this model
Contents ==
    { <<"<p>", "x", "</p>">>,
      <<"<p>", "x", "&nbsp;", " ", "x", "<br>", "</p>", "TAB", "<div>", "</div>">> }

----------------------------------------------------------------------------
(* The mutable state a handler works on, as one record, so that a handler  *)
(* that calls other methods is the composition of their effects.           *)

Cur ==
    [ airActive |-> airActive, barClass |-> barClass, sel |-> sel,
      inputValue |-> inputValue, deb |-> deb, hist |-> hist, keydeb |-> keydeb,
      keyhist |-> keyhist, trace |-> <<>>, ret |-> <<>> ]

Log(s, op, arg) == [s EXCEPT !.trace = Append(@, [op |-> op, arg |-> arg])]

BurstCap == 3
Cap(n) == IF n > BurstCap THEN BurstCap ELSE n

\* bookkeeping: a request for verb w is made at time `now`; it continues the
\* current burst when it follows the previous request by less than the interval
Request(h, w) ==
    IF h.last = NoTime \/ now - h.last >= opts[AutoOp(w)]
    THEN [len |-> 1, fires |-> 0, last |-> now, spread |-> FALSE]
    ELSE [len |-> Cap(h.len + 1), fires |-> h.fires, last |-> now,
          spread |-> h.spread \/ now > h.last]

\* setTimeout(later, ms) of the listener with closure d, at time `now`
SetTimeout(d, ms) == [d EXCEPT !.timeout = now + ms, !.pending = @ \cup {now + ms}]

\* (mutant) a timer is set at every call
debouncedAlways(d) == SetTimeout([d EXCEPT !.time = now], d.wait)

(* debounce(func, wait): the returned function is called *)
debounced(d) ==
    IF d.timeout = NoTimer
    THEN SetTimeout([d EXCEPT !.time = now], d.wait)
    ELSE [d EXCEPT !.time = now]

\* bookkeeping: an event e reaches the listener of type t at time `now`; it
\* continues the current burst when it follows the previous event of the type
\* by less than the throttle interval
KeyRequest(h, e) ==
    IF h.time = NoTime \/ now - h.time >= opts.throttle
    THEN [h EXCEPT !.last = e, !.time = now, !.differ = FALSE, !.fires = 0]
    ELSE [h EXCEPT !.last = e, !.time = now, !.differ = @ \/ e # h.last]

\* (mutant) the arguments are saved only by the call that sets the timer
keyDebouncedFirst(d, e) ==
    IF d.timeout = NoTimer THEN debounced([d EXCEPT !.args = e]) ELSE debounced(d)

(* debounce(func, wait): the returned function is called with the event e *)
keyDebounced(d, e) == debounced([d EXCEPT !.args = e])

\* (mutant) the selection is not required to be within the element
hasSelectionAnywhere(s) ==
    IF ~s.sel.collapsed
    THEN [truthy |-> TRUE, value |-> s.sel]
    ELSE [truthy |-> FALSE, value |-> s.sel]

(* domsel.getSelection / isCollapsed / isWithin *)
hasSelection(s) ==
    IF ~s.sel.collapsed /\ s.sel.within
    THEN [truthy |-> TRUE, value |-> s.sel]
    ELSE [truthy |-> FALSE, value |-> s.sel]

\* domsel.expandToWord(): the selection grows to the word at its position;
\* word says whether there is one
expandSelection(s, word) ==
    LET s1 == Log(s, "expandSelection", "")
    IN  IF word
        THEN [s1 EXCEPT !.sel = [collapsed |-> FALSE, within |-> s.sel.within, word |-> TRUE]]
        ELSE s1

\* (mutant) the length test is inverted: nothing is executed
executeNothing(s, name) == s

\* doc.execCommand.apply(doc, args), args.length = 1
execute(s, name) == Log(s, "execCommand", name)

\* (mutant) the flag is not consulted
showAirbarUnguarded(s) ==
    IF opts.airbar
    THEN [Log(s, "classList.add", "active") EXCEPT !.barClass = TRUE, !.airActive = TRUE]
    ELSE s

showAirbar(s) ==
    IF opts.airbar /\ ~s.airActive
    THEN [Log(s, "classList.add", "active") EXCEPT !.barClass = TRUE, !.airActive = TRUE]
    ELSE s

\* (mutant) the flag is not reset
hideAirbarKeepsFlag(s) ==
    IF opts.airbar /\ s.airActive
    THEN [Log(s, "classList.remove", "active") EXCEPT !.barClass = FALSE]
    ELSE s

hideAirbar(s) ==
    IF opts.airbar /\ s.airActive
    THEN [Log(s, "classList.remove", "active") EXCEPT !.barClass = FALSE, !.airActive = FALSE]
    ELSE s

\* (mutant) the two branches are swapped
toggleAirbarSwapped(s) == IF s.airActive THEN showAirbar(s) ELSE hideAirbar(s)

toggleAirbar(s) == IF s.airActive THEN hideAirbar(s) ELSE showAirbar(s)

\* this.el.dispatchEvent(ev) and the listeners registered for `editor_` + name
emit(s, name) ==
    LET s1 == Log(s, "dispatchEvent", "editor_" \o name)
    IN  CASE name \in {"save", "sync"} -> Log(s1, "callback", funk(name))
          [] name \in {"autosave", "autosync"} ->
               LET w == IF name = "autosave" THEN "save" ELSE "sync"
               IN  IF s1.deb[w].wait # 0
                   THEN [s1 EXCEPT !.deb[w] = debounced(@), !.hist[w] = Request(@, w)]
                   ELSE s1
          [] OTHER -> s1

save(s) == emit(s, "save")

\* (mutant) the input is written after the event is dispatched
syncLate(s) ==
    LET s1 == emit(s, "sync")
    IN  IF opts.input
        THEN [Log(s1, "input.value", "") EXCEPT !.inputValue = minifyHTML(html)]
        ELSE s1

sync(s) ==
    LET s1 == IF opts.input
              THEN [Log(s, "input.value", "") EXCEPT !.inputValue = minifyHTML(html)]
              ELSE s
    IN  emit(s1, "sync")

\* the value of a missing property
NoCmd == <<>>

\* (mutant) the timers of the two listeners are one variable
laterShared(s, w) ==
    LET d == s.deb[w]
        last == now - d.time
    IN  IF last < d.wait
        THEN [Log(s, "setTimeout", w) EXCEPT !.deb[w] = SetTimeout(@, d.wait - last)]
        ELSE LET s1 == [s EXCEPT !.deb = [v \in Verbs |-> [@[v] EXCEPT !.timeout = NoTimer]],
                                 !.hist[w].fires = Cap(@ + 1)]
             IN  IF w = "save" THEN save(s1) ELSE sync(s1)

\* (mutant) the timer runs the function when it expires, whenever the last call was
laterEager(s, w) ==
    LET s1 == [s EXCEPT !.deb[w].timeout = NoTimer, !.hist[w].fires = Cap(@ + 1)]
    IN  IF w = "save" THEN save(s1) ELSE sync(s1)

\* (mutant) a timer that expires too early is dropped
laterDropped(s, w) ==
    LET d == s.deb[w]
        s1 == [s EXCEPT !.deb[w].timeout = NoTimer]
    IN  IF now - d.time < d.wait THEN s1
        ELSE LET s2 == [s1 EXCEPT !.hist[w].fires = Cap(@ + 1)]
             IN  IF w = "save" THEN save(s2) ELSE sync(s2)

\* `later` of the debounced listener of verb w (func is save or sync)
later(s, w) ==
    LET d == s.deb[w]
        last == now - d.time
    IN  IF last < d.wait
        THEN [Log(s, "setTimeout", w) EXCEPT !.deb[w] = SetTimeout(@, d.wait - last)]
        ELSE LET s1 == [s EXCEPT !.deb[w].timeout = NoTimer,
                                 !.hist[w].fires = Cap(@ + 1)]
             IN  IF w = "save" THEN save(s1) ELSE sync(s1)

\* keyEvent(e): the arguments of the user's key callback (no event of the
\* model holds alt or ctrl)
keyEvent(e) ==
    <<e, [alt |-> FALSE, ctrl |-> FALSE,
          meta |-> e.metaKey \/ e.keyIdentifier = "Meta", shift |-> e.shiftKey]>>

\* (mutant) the timers of the three key listeners are one variable
keyLaterShared(s, t) ==
    LET d == s.keydeb[t]
        last == now - d.time
    IN  IF last < d.wait
        THEN [Log(s, "setTimeout", t) EXCEPT !.keydeb[t] = SetTimeout(@, d.wait - last)]
        ELSE [Log(s, "callback", funk(t)) EXCEPT
                 !.keydeb = [u \in KeyTypes |-> [@[u] EXCEPT !.timeout = NoTimer]],
                 !.keyhist[t].fires = Cap(@ + 1),
                 !.keyhist[t].got = keyEvent(d.args)]

\* `later` of the debounced listener of key events of type t (func applies
\* opts[funk(e.type)] to keyEvent(e))
keyLater(s, t) ==
    LET d == s.keydeb[t]
        last == now - d.time
    IN  IF last < d.wait
        THEN [Log(s, "setTimeout", t) EXCEPT !.keydeb[t] = SetTimeout(@, d.wait - last)]
        ELSE [Log(s, "callback", funk(t)) EXCEPT
                 !.keydeb[t].timeout = NoTimer,
                 !.keyhist[t].fires = Cap(@ + 1),
                 !.keyhist[t].got = keyEvent(d.args)]

\* the debounced listener of key events of type t is called with e
keyListener(s, t, e) ==
    [s EXCEPT !.keydeb[t] = keyDebounced(@, e), !.keyhist[t] = KeyRequest(@, e)]

\* cmds[tag]
Lookup(tag) ==
    IF tag \in DOMAIN cmds THEN cmds[tag]
    ELSE IF tag \in ProtoKeys THEN <<Undefined, FALSE>>
    ELSE NoCmd

\* (mutant) the caret is expanded whenever the command requires a selection
runCommandAlwaysExpands(s, tag, e, word) ==
    LET cmd == Lookup(tag)
    IN  IF tag \in {"", Undefined} \/ cmd = NoCmd THEN s
        ELSE LET s1 == IF e THEN Log(s, "preventDefault", "") ELSE s
                 s2 == IF cmd[2] THEN expandSelection(s1, word) ELSE s1
             IN  execute(s2, cmd[1])

runCommand(s, tag, e, word) ==
    LET cmd == Lookup(tag)
    IN  IF tag \in {"", Undefined} \/ cmd = NoCmd THEN s
        ELSE LET s1 == IF e THEN Log(s, "preventDefault", "") ELSE s
                 s2 == IF cmd[2] /\ ~hasSelection(s1).truthy
                       THEN expandSelection(s1, word)
                       ELSE s1
             IN  execute(s2, cmd[1])

\* keys[k]
KeyLookup(k) == IF k \in DOMAIN keys THEN keys[k] ELSE Undefined

\* (mutant) the shift flag is not looked at
onKeydownNoShift(s, e, word) ==
    LET code == e.keyCode
        s1 == IF e.metaKey /\ e.keyIdentifier # "Meta"
              THEN runCommand(s, KeyLookup(ToString(code)), TRUE, word)
              ELSE s
        s2 == IF code = 13 /\ e.inDiv THEN execute(s1, "formatBlock") ELSE s1
        s3 == IF opts.autoSave # 0 THEN emit(s2, "autosave") ELSE s2
    IN  IF opts.autoSync # 0 THEN emit(s3, "autosync") ELSE s3

onKeydown(s, e, word) ==
    LET code == e.keyCode
        k == IF e.shiftKey THEN "s" \o ToString(code) ELSE ToString(code)
        s1 == IF e.metaKey /\ e.keyIdentifier # "Meta"
              THEN runCommand(s, KeyLookup(k), TRUE, word)
              ELSE s
        s2 == IF code = 13 /\ e.inDiv THEN execute(s1, "formatBlock") ELSE s1
        s3 == IF opts.autoSave # 0 THEN emit(s2, "autosave") ELSE s2
    IN  IF opts.autoSync # 0 THEN emit(s3, "autosync") ELSE s3

onSelection(s) ==
    LET s1 == IF opts.snapSelection
              THEN [Log(s, "snapSelected", "") EXCEPT !.sel.word = TRUE]
              ELSE s
    IN  showAirbar(Log(s1, "callback", "onSelection"))

\* (mutant) the airbar is not hidden when there is no selection
onMouseupNoHide(s) == IF hasSelection(s).truthy THEN onSelection(s) ELSE s

onMouseup(s) == IF hasSelection(s).truthy THEN onSelection(s) ELSE hideAirbar(s)

onFocus(s) ==
    Log(IF hasSelection(s).truthy THEN showAirbar(s) ELSE s, "callback", "onFocus")

\* (mutant) the airbar is left as it is
onBlurNoHide(s, relatedTarget) ==
    IF relatedTarget \in buttons THEN s
    ELSE Log(sync(s), "callback", "onBlur")

\* (mutant) the related target is not looked at
onBlurUnfiltered(s, relatedTarget) ==
    Log(hideAirbar(sync(s)), "callback", "onBlur")

onBlur(s, relatedTarget) ==
    IF relatedTarget \in buttons THEN s
    ELSE Log(hideAirbar(sync(s)), "callback", "onBlur")

onBtnClick(s, tag, word) ==
    CASE tag = "a" -> Log(s, "insertLink", "")
      [] tag = "img" -> Log(s, "insertImage", "")
      [] OTHER -> runCommand(s, tag, TRUE, word)

\* (mutant) the configured interval is used as it is
IntervalUnclamped(ms) == ms

\* the wait of the debounced listener of a verb configured with ms
Interval(ms) == IF ms # 0 THEN Max(ms, MinInterval) ELSE 0

----------------------------------------------------------------------------
(* Inputs *)

Defaults ==
    [ airbar |-> FALSE, toolbar |-> FALSE, input |-> FALSE, snapSelection |-> TRUE,
      autoSave |-> 0, autoSync |-> 0, throttle |-> 250 ]

\* the options a caller may pass (merged over the defaults): without and with
\* auto-save / auto-sync
Configs ==
    [ airbar : BOOLEAN, toolbar : BOOLEAN, input : BOOLEAN, snapSelection : BOOLEAN,
      autoSave : {0}, autoSync : {0}, throttle : {250} ]

ConfigsAuto ==
    [ airbar : {FALSE}, toolbar : {TRUE}, input : BOOLEAN, snapSelection : {TRUE},
      autoSave : AutoVals, autoSync : AutoVals, throttle : {250} ]

Selections ==
    { x \in [collapsed : BOOLEAN, within : BOOLEAN, word : BOOLEAN] :
        x.collapsed => ~x.word }

NoEvent == [keyCode |-> 0, metaKey |-> FALSE, shiftKey |-> FALSE,
            keyIdentifier |-> "", inDiv |-> FALSE]

Key(code, meta, shift, ident, inDiv) ==
    [keyCode |-> code, metaKey |-> meta, shiftKey |-> shift,
     keyIdentifier |-> ident, inDiv |-> inDiv]

\* key events: every chord of the keybinding table; the same keys without the
\* modifier or with the other shift state; a plain letter; cmd+A (no binding);
\* Enter in and out of a DIV, alone and with the modifier; the Meta key itself
BoundCodes == {85, 66, 73, 221, 219}
BoundShiftCodes == {55, 56, 69, 74, 76, 82}

KeyEvents ==
    { Key(c, TRUE, FALSE, "", FALSE) : c \in BoundCodes }
        \cup { Key(c, TRUE, TRUE, "", FALSE) : c \in BoundShiftCodes }
        \cup { Key(66, FALSE, FALSE, "", FALSE), Key(66, TRUE, TRUE, "", FALSE),
               Key(55, TRUE, FALSE, "", FALSE), Key(55, FALSE, TRUE, "", FALSE),
               Key(65, FALSE, FALSE, "", FALSE), Key(65, TRUE, FALSE, "", FALSE),
               Key(13, FALSE, FALSE, "Enter", TRUE), Key(13, FALSE, FALSE, "Enter", FALSE),
               Key(13, TRUE, FALSE, "Enter", TRUE),
               Key(91, TRUE, FALSE, "Meta", FALSE) }

\* data-tag values and runCommand arguments
Tags == DOMAIN cmds \cup {"img", "", Undefined, "toString", "nope"}

Targets == {"toolbarBtn", "airbarBtn", "other"}

\* the largest interval in use, and the last time a key event is taken, so
\* that every timer can expire within MaxNow
MaxWait == CHOOSE m \in {Interval(v) : v \in AutoVals} :
               \A v \in AutoVals : Interval(v) <= m
LastKeyTime == MaxNow - MaxWait

----------------------------------------------------------------------------
(* Actions *)

Commit(s, name, arg, e) ==
    /\ airActive' = s.airActive
    /\ barClass' = s.barClass
    /\ sel' = s.sel
    /\ inputValue' = s.inputValue
    /\ deb' = s.deb
    /\ hist' = s.hist
    /\ keydeb' = s.keydeb
    /\ keyhist' = s.keyhist
    /\ trace' = s.trace
    /\ ret' = s.ret
    /\ lastOp' = [name |-> name, arg |-> arg, e |-> e]
    /\ UNCHANGED <<phase, cfg, opts, buttons, now, html>>

Init ==
    /\ phase = "new"
    /\ cfg = Defaults
    /\ opts = Defaults
    /\ buttons = {}
    /\ now = 0
    /\ deb = [w \in Verbs |-> [wait |-> 0, time |-> NoTime, timeout |-> NoTimer,
                               pending |-> {}]]
    /\ hist = [w \in Verbs |-> [len |-> 0, fires |-> 0, last |-> NoTime, spread |-> FALSE]]
    /\ keydeb = [t \in KeyTypes |-> [wait |-> 0, time |-> NoTime, timeout |-> NoTimer,
                                  pending |-> {}, args |-> NoEvent]]
    /\ keyhist = [t \in KeyTypes |-> [last |-> NoEvent, time |-> NoTime, differ |-> FALSE,
                                   fires |-> 0, got |-> <<>>]]
    /\ airActive = FALSE
    /\ barClass = FALSE
    /\ sel = [collapsed |-> TRUE, within |-> FALSE, word |-> FALSE]
    /\ html = <<"<p>", "x", "</p>">>
    /\ inputValue = <<>>
    /\ lastOp = [name |-> "", arg |-> "", e |-> NoEvent]
    /\ trace = <<>>
    /\ ret = <<>>

\* (mutant) the fields are assigned before the arguments are checked
EditorAssignsFirst(c, nodeType, supported) ==
    /\ phase = "new"
    /\ lastOp' = [name |-> "Editor", e |-> NoEvent,
                  arg |-> ToString(nodeType) \o (IF supported THEN "+" ELSE "-")]
    /\ phase' = IF nodeType # 1 \/ ~supported THEN "threw" ELSE "ready"
    /\ cfg' = c
    /\ opts' = [c EXCEPT !.autoSave = Interval(@), !.autoSync = Interval(@)]
    /\ deb' = [w \in Verbs |-> [deb[w] EXCEPT !.wait = Interval(c[AutoOp(w)])]]
    /\ keydeb' = [t \in KeyTypes |-> [keydeb[t] EXCEPT !.wait = c.throttle]]
    /\ buttons' = (IF c.toolbar THEN {"toolbarBtn"} ELSE {})
                    \cup (IF c.airbar THEN {"airbarBtn"} ELSE {})
    /\ UNCHANGED <<now, hist, keyhist, airActive, barClass, sel, html, inputValue,
                   trace, ret>>

\* new Editor(el, c)
Editor(c, nodeType, supported) ==
    /\ phase = "new"
    /\ lastOp' = [name |-> "Editor", e |-> NoEvent,
                  arg |-> ToString(nodeType) \o (IF supported THEN "+" ELSE "-")]
    /\ IF nodeType # 1 \/ ~supported
       THEN /\ phase' = "threw"
            /\ UNCHANGED <<cfg, opts, buttons, deb, keydeb>>
       ELSE /\ phase' = "ready"
            /\ cfg' = c
            /\ opts' = [c EXCEPT !.autoSave = Interval(@), !.autoSync = Interval(@)]
            /\ deb' = [w \in Verbs |-> [deb[w] EXCEPT !.wait = Interval(c[AutoOp(w)])]]
            /\ keydeb' = [t \in KeyTypes |-> [keydeb[t] EXCEPT !.wait = c.throttle]]
            /\ buttons' = (IF c.toolbar THEN {"toolbarBtn"} ELSE {})
                            \cup (IF c.airbar THEN {"airbarBtn"} ELSE {})
    /\ UNCHANGED <<now, hist, keyhist, airActive, barClass, sel, html, inputValue,
                   trace, ret>>

\* time passes
Tick ==
    /\ phase = "ready"
    /\ now + TickMs <= MaxNow
    /\ now' = now + TickMs
    /\ lastOp' = [name |-> "tick", arg |-> "", e |-> NoEvent]
    /\ trace' = <<>>
    /\ ret' = <<>>
    /\ UNCHANGED <<phase, cfg, opts, buttons, deb, hist, keydeb, keyhist, airActive,
                   barClass, sel, html, inputValue>>

\* a timer of the debounced listener of verb w expires: the host drops it and
\* runs `later`
Later(w) ==
    /\ phase = "ready"
    /\ \E t \in deb[w].pending :
          /\ now >= t
          /\ Commit(later([Cur EXCEPT !.deb[w].pending = @ \ {t}], w), "later", w, NoEvent)

Keydown(e, word) ==
    /\ phase = "ready"
    /\ now <= LastKeyTime
    /\ Commit(keyListener(onKeydown(Cur, e, word), "keydown", e), "keydown", "", e)

\* a keyup / keypress event: the debounced listener of its type
Keyup(e) ==
    /\ phase = "ready"
    /\ now <= LastKeyTime
    /\ Commit(keyListener(Cur, "keyup", e), "keyup", "", e)

Keypress(e) ==
    /\ phase = "ready"
    /\ now <= LastKeyTime
    /\ Commit(keyListener(Cur, "keypress", e), "keypress", "", e)

\* a timer of the debounced listener of key events of type t expires: the host
\* drops it and runs `later`
KeyLater(t) ==
    /\ phase = "ready"
    /\ \E due \in keydeb[t].pending :
          /\ now >= due
          /\ Commit(keyLater([Cur EXCEPT !.keydeb[t].pending = @ \ {due}], t),
                    "keylater", t, NoEvent)

Blur(relatedTarget) ==
    /\ phase = "ready"
    /\ Commit(onBlur(Cur, relatedTarget), "blur", relatedTarget, NoEvent)

Focus ==
    /\ phase = "ready"
    /\ Commit(onFocus(Cur), "focus", "", NoEvent)

Mouseup ==
    /\ phase = "ready"
    /\ Commit(onMouseup(Cur), "mouseup", "", NoEvent)

\* a click on a button collected at construction, carrying data-tag = tag
BtnClick(tag, word) ==
    /\ phase = "ready"
    /\ buttons # {}
    /\ Commit(onBtnClick(Cur, tag, word), "click", tag, NoEvent)

RunCommand(tag, word) ==
    /\ phase = "ready"
    /\ Commit(runCommand(Cur, tag, FALSE, word), "runCommand", tag, NoEvent)

\* editor.hasSelection(): the selection, or a falsy value
HasSelection ==
    /\ phase = "ready"
    /\ LET r == hasSelection(Cur)
       IN  Commit([Cur EXCEPT !.ret = IF r.truthy THEN <<r.value>> ELSE <<>>],
                  "hasSelection", "", NoEvent)

Save ==
    /\ phase = "ready"
    /\ Commit(save(Cur), "save", "", NoEvent)

Sync ==
    /\ phase = "ready"
    /\ Commit(sync(Cur), "sync", "", NoEvent)

ShowAirbar ==
    /\ phase = "ready"
    /\ Commit(showAirbar(Cur), "showAirbar", "", NoEvent)

HideAirbar ==
    /\ phase = "ready"
    /\ Commit(hideAirbar(Cur), "hideAirbar", "", NoEvent)

ToggleAirbar ==
    /\ phase = "ready"
    /\ Commit(toggleAirbar(Cur), "toggleAirbar", "", NoEvent)

\* the user moves the caret or selects text
Select(x) ==
    /\ phase = "ready"
    /\ sel' = x
    /\ lastOp' = [name |-> "select", arg |-> "", e |-> NoEvent]
    /\ trace' = <<>>
    /\ ret' = <<>>
    /\ UNCHANGED <<phase, cfg, opts, buttons, now, deb, hist, keydeb, keyhist,
                   airActive, barClass, html, inputValue>>

SetHTML(str) ==
    /\ phase = "ready"
    /\ html' = setHTML(str)
    /\ lastOp' = [name |-> "setHTML", arg |-> "", e |-> NoEvent]
    /\ trace' = <<>>
    /\ ret' = <<>>
    /\ UNCHANGED <<phase, cfg, opts, buttons, now, deb, hist, keydeb, keyhist,
                   airActive, barClass, sel, inputValue>>

Next ==
    \/ \E c \in Configs, nodeType \in {1, 3}, supported \in BOOLEAN :
          Editor(c, nodeType, supported)
    \/ \E t \in Targets : Blur(t)
    \/ Focus
    \/ Mouseup
    \/ \E tag \in Tags, word \in BOOLEAN : BtnClick(tag, word)
    \/ \E tag \in Tags, word \in BOOLEAN : RunCommand(tag, word)
    \/ HasSelection
    \/ Save
    \/ Sync
    \/ ShowAirbar
    \/ HideAirbar
    \/ ToggleAirbar
    \/ \E x \in Selections : Select(x)
    \/ \E str \in Contents : SetHTML(str)

Spec == Init /\ [][Next]_vars

\* the keyboard: every key event, with every selection, on every editor
NextChords ==
    \/ \E c \in Configs : Editor(c, 1, TRUE)
    \/ \E e \in KeyEvents, word \in BOOLEAN : Keydown(e, word)
    \/ \E x \in Selections : Select(x)

SpecChords == Init /\ [][NextChords]_vars

\* an editor with auto-save / auto-sync: the operations that reach the timers
\* of the two verbs or what they run (the timers of the key listeners, which
\* read and write nothing but their own closures, run in NextKeys)
KeyEventsAuto == { Key(13, FALSE, FALSE, "Enter", TRUE) }

NextAuto ==
    \/ \E c \in ConfigsAuto, nodeType \in {1, 3}, supported \in BOOLEAN :
          Editor(c, nodeType, supported)
    \/ Tick
    \/ \E w \in Verbs : Later(w)
    \/ \E e \in KeyEventsAuto : Keydown(e, FALSE)
    \/ \E t \in Targets : Blur(t)
    \/ Save
    \/ Sync
    \/ \E str \in Contents : SetHTML(str)

SpecAuto == Init /\ [][NextAuto]_vars

\* the editor with auto-save / auto-sync under its scheduling: time passes, and
\* the host runs a timer that is due
ConfigsFair ==
    [ airbar : {FALSE}, toolbar : {FALSE}, input : {FALSE}, snapSelection : {TRUE},
      autoSave : AutoVals, autoSync : AutoVals, throttle : {250} ]

NextFair ==
    \/ \E c \in ConfigsFair : Editor(c, 1, TRUE)
    \/ Tick
    \/ \E w \in Verbs : Later(w)
    \/ Keydown(Key(65, FALSE, FALSE, "", FALSE), FALSE)
    \/ Save
    \/ Sync

FairAuto ==
    /\ Init /\ [][NextFair]_vars
    /\ WF_vars(Tick) /\ WF_vars(Later("save")) /\ WF_vars(Later("sync"))

\* the key listeners: key events of the three types, in bursts and apart, on
\* an editor with any of the throttle intervals
ThrottleVals == {0, 250, 1000}

ConfigsKeys ==
    [ airbar : {FALSE}, toolbar : {FALSE}, input : {FALSE}, snapSelection : {TRUE},
      autoSave : {0}, autoSync : {0}, throttle : ThrottleVals ]

\* cmd+B (a chord) and a plain letter
KeyEventsKeys == { Key(66, TRUE, FALSE, "", FALSE), Key(65, FALSE, FALSE, "", FALSE) }

\* the last time a key event is taken in NextKeys
KeysUntil == TickMs

NextKeys ==
    \/ \E c \in ConfigsKeys : Editor(c, 1, TRUE)
    \/ Tick
    \/ \E t \in KeyTypes : KeyLater(t)
    \/ \E e \in KeyEventsKeys : now <= KeysUntil /\ Keydown(e, TRUE)
    \/ \E e \in KeyEventsKeys : now <= KeysUntil /\ Keyup(e)
    \/ \E e \in KeyEventsKeys : now <= KeysUntil /\ Keypress(e)

SpecKeys == Init /\ [][NextKeys]_vars

----------------------------------------------------------------------------
(* The HTML accessors, on an editor built with the default options whose   *)
(* element holds any content of up to MaxLen tokens.                       *)

MaxLen == 4

Seqs(A, n) == UNION {[1..k -> A] : k \in 0..n}

MinifyTokens == {"<p>", "</p>", "<br>", "&nbsp;", " ", "TAB", "x"}
ScriptTokens == {"<script>", "<SCRIPT src=a>", "<scriptx>", "</script>", "</SCRIPT >",
                 "<p>", "x"}

HtmlInputs == Seqs(MinifyTokens, MaxLen) \cup Seqs(ScriptTokens, MaxLen)

Return(name, value) ==
    /\ phase = "ready"
    /\ ret' = <<value>>
    /\ lastOp' = [name |-> name, arg |-> "", e |-> NoEvent]
    /\ trace' = <<>>
    /\ UNCHANGED <<phase, cfg, opts, buttons, now, deb, hist, keydeb, keyhist,
                   airActive, barClass, sel, html, inputValue>>

GetHTML == Return("getHTML", getHTML(html))
CleanHTML == Return("cleanHTML", cleanHTML(html))
MinifyHTML == Return("minifyHTML", minifyHTML(html))
SafeHTML == Return("safeHTML", safeHTML(html))

\* setHTML(v), v the value the last call returned
SetHTMLRet ==
    /\ phase = "ready"
    /\ lastOp.name \in {"getHTML", "cleanHTML", "minifyHTML", "safeHTML"}
    /\ html' = setHTML(ret[1])
    /\ lastOp' = [name |-> "setHTML", arg |-> lastOp.name, e |-> NoEvent]
    /\ trace' = <<>>
    /\ UNCHANGED <<phase, cfg, opts, buttons, now, deb, hist, keydeb, keyhist,
                   airActive, barClass, sel, inputValue, ret>>

\* new Editor(el) followed by setHTML(str)
InitHtml ==
    /\ phase = "ready"
    /\ cfg = Defaults
    /\ opts = Defaults
    /\ buttons = {}
    /\ now = 0
    /\ deb = [w \in Verbs |-> [wait |-> 0, time |-> NoTime, timeout |-> NoTimer,
                               pending |-> {}]]
    /\ hist = [w \in Verbs |-> [len |-> 0, fires |-> 0, last |-> NoTime, spread |-> FALSE]]
    /\ keydeb = [t \in KeyTypes |-> [wait |-> Defaults.throttle, time |-> NoTime, timeout |-> NoTimer,
                                  pending |-> {}, args |-> NoEvent]]
    /\ keyhist = [t \in KeyTypes |-> [last |-> NoEvent, time |-> NoTime, differ |-> FALSE,
                                   fires |-> 0, got |-> <<>>]]
    /\ airActive = FALSE
    /\ barClass = FALSE
    /\ sel = [collapsed |-> TRUE, within |-> FALSE, word |-> FALSE]
    /\ \E str \in HtmlInputs : html = setHTML(str)
    /\ inputValue = <<>>
    /\ lastOp = [name |-> "setHTML", arg |-> "", e |-> NoEvent]
    /\ trace = <<>>
    /\ ret = <<>>

NextHtml ==
    \/ GetHTML
    \/ CleanHTML
    \/ MinifyHTML
    \/ SafeHTML
    \/ SetHTMLRet

SpecHtml == InitHtml /\ [][NextHtml]_vars

----------------------------------------------------------------------------
(* Properties *)

Ready == phase = "ready"

Has(t, op, arg) == \E i \in 1..Len(t) : t[i] = [op |-> op, arg |-> arg]
Index(t, op) == CHOOSE i \in 1..Len(t) : t[i].op = op
Execs(t) == SelectSeq(t, LAMBDA x : x.op = "execCommand")
ClassChanges(t) == SelectSeq(t, LAMBDA x : x.op \in {"classList.add", "classList.remove"})
Qualifying(x) == ~x.collapsed /\ x.within
Other(w) == IF w = "save" THEN "sync" ELSE "save"

\* the last step was the timer of verb w running save() / sync()
Fired(w) ==
    /\ lastOp.name = "later" /\ lastOp.arg = w
    /\ Has(trace, "dispatchEvent", "editor_" \o w)

\* C1: for a burst of requests of a verb, each less than the interval after the
\* one before: no save/sync has fired while the timer is pending, exactly one has
\* fired once the timer is idle again, and it fires no earlier than the interval
\* after the last request of the burst.
DebounceOncePerBurst ==
    Ready =>
        \A w \in Verbs :
            /\ hist[w].len >= 1 =>
                   hist[w].fires = (IF deb[w].timeout = NoTimer THEN 1 ELSE 0)
            /\ Fired(w) => now - hist[w].last >= opts[AutoOp(w)]

DebounceOncePerBurstWitness ==
    \E w \in Verbs :
        /\ Fired(w)
        /\ hist[w].len >= 2 /\ hist[w].spread /\ hist[w].fires = 1
        /\ deb[w].timeout = NoTimer

\* C2: a request for auto-save (auto-sync) is eventually followed by the timer
\* running save() (sync()) and with it the onSave (onSync) callback.
RequestLeadsToSave ==
    \A w \in Verbs :
        (lastOp.name = "keydown" /\ Has(trace, "dispatchEvent", "editor_auto" \o w))
            ~> (Fired(w) /\ Has(trace, "callback", funk(w)))

RequestLeadsToSaveWitness ==
    /\ Fired("sync") /\ Has(trace, "callback", "onSync")
    /\ hist["sync"].len >= 1
    /\ hist["save"].fires = 1


\* C3: after construction each of opts.autoSave / opts.autoSync is 0 (disabled, no
\* debounced listener) or at least 1500; a configured interval below 1500 becomes
\* 1500 in opts and as the wait of the debounced listener, one of 1500 or more is
\* used unchanged.
IntervalsClamped ==
    Ready =>
        \A w \in Verbs :
            LET c == cfg[AutoOp(w)]
                o == opts[AutoOp(w)]
            IN  /\ o = 0 \/ o >= 1500
                /\ c = 0 => o = 0 /\ deb[w].wait = 0
                /\ (c # 0 /\ c < 1500) => o = 1500 /\ deb[w].wait = 1500
                /\ c >= 1500 => o = c /\ deb[w].wait = c

IntervalsClampedWitness ==
    /\ Ready
    /\ cfg.autoSave # 0 /\ cfg.autoSave < 1500 /\ opts.autoSave = 1500
    /\ deb["save"].wait = 1500
    /\ cfg.autoSync > 1500 /\ deb["sync"].wait = cfg.autoSync

\* C4: a verb that is not configured has no timer and its callback runs only in
\* an explicit save() / sync() (blur calls sync()); a step of one verb's timer
\* leaves the other verb's timer alone, and after a key event the other verb's
\* timer is as its own state and interval make it.
TimersIndependent ==
    /\ [](Ready =>
            \A w \in Verbs :
                opts[AutoOp(w)] = 0 =>
                    /\ deb[w].timeout = NoTimer /\ hist[w].fires = 0
                    /\ Has(trace, "callback", funk(w)) =>
                           lastOp.name \in (IF w = "save" THEN {"save"} ELSE {"sync", "blur"}))
    /\ [][\A w \in Verbs :
            LET o == Other(w)
            IN  /\ (lastOp'.name = "later" /\ lastOp'.arg = w) => deb'[o] = deb[o]
                /\ lastOp'.name = "keydown" =>
                       deb'[o].timeout =
                           (IF deb[o].timeout # NoTimer THEN deb[o].timeout
                            ELSE IF opts[AutoOp(o)] = 0 THEN NoTimer
                            ELSE now + opts[AutoOp(o)])]_vars

TimersIndependentWitness ==
    /\ Fired("save")
    /\ deb["sync"].timeout # NoTimer
    /\ hist["sync"].len >= 1

\* C5: showAirbar twice is showAirbar once, with at most one class-list change,
\* and the same for hideAirbar; show while shown and hide while hidden change
\* nothing.
ShowHideIdempotent ==
    /\ [](Ready =>
            LET s1 == showAirbar(Cur)
                h1 == hideAirbar(Cur)
            IN  /\ showAirbar(s1) = s1 /\ Len(ClassChanges(showAirbar(s1).trace)) <= 1
                /\ hideAirbar(h1) = h1 /\ Len(ClassChanges(hideAirbar(h1).trace)) <= 1)
    /\ [][/\ (lastOp'.name = "showAirbar" /\ airActive) =>
                 (airActive' = airActive /\ barClass' = barClass /\ trace' = <<>>)
          /\ (lastOp'.name = "hideAirbar" /\ ~airActive) =>
                 (airActive' = airActive /\ barClass' = barClass /\ trace' = <<>>)]_vars

ShowHideIdempotentWitness ==
    /\ opts.airbar /\ lastOp.name = "showAirbar" /\ airActive /\ trace = <<>>

\* C6: with an airbar, after a mouseup the airbar is shown if the selection was
\* non-collapsed and within the element, and hidden otherwise.
MouseupSetsAirbar ==
    [][(lastOp'.name = "mouseup" /\ opts.airbar) => airActive' = Qualifying(sel)]_vars

MouseupSetsAirbarWitness ==
    /\ opts.airbar /\ lastOp.name = "mouseup" /\ ~airActive
    /\ Has(trace, "classList.remove", "active")

\* C7 as stated: with an airbar, after every blur the airbar is hidden.
BlurAlwaysHides ==
    (lastOp.name = "blur" /\ opts.airbar) => ~airActive

\* C7: with an airbar, after a blur whose relatedTarget is not one of the
\* collected buttons the airbar is hidden.
BlurHides ==
    (lastOp.name = "blur" /\ opts.airbar /\ lastOp.arg \notin buttons) => ~airActive

BlurHidesWitness ==
    /\ opts.airbar /\ lastOp.name = "blur" /\ lastOp.arg \notin buttons
    /\ Has(trace, "classList.remove", "active") /\ ~airActive

\* C8 as stated: toggleAirbar called while hidden leaves the airbar shown, called
\* while shown leaves it hidden.
ToggleAlwaysFlips ==
    [][lastOp'.name = "toggleAirbar" => airActive' = ~airActive]_vars

\* C8: with an airbar, toggleAirbar called while hidden leaves it shown, called
\* while shown leaves it hidden, and two calls restore the state.
ToggleFlips ==
    /\ [](Ready /\ opts.airbar =>
            LET t2 == toggleAirbar(toggleAirbar(Cur))
            IN  t2.airActive = airActive /\ t2.barClass = barClass)
    /\ [][(lastOp'.name = "toggleAirbar" /\ opts.airbar) => airActive' = ~airActive]_vars

ToggleFlipsWitness ==
    /\ opts.airbar /\ lastOp.name = "toggleAirbar" /\ ~airActive
    /\ trace = <<[op |-> "classList.remove", arg |-> "active"]>>

\* C9: runCommand(tag), tag in the command table, with a qualifying selection,
\* makes exactly one native call, with the name the table gives for the tag.
CommandRunsOnce ==
    [][(lastOp'.name = "runCommand" /\ lastOp'.arg \in DOMAIN cmds /\ Qualifying(sel)) =>
          Execs(trace') = <<[op |-> "execCommand", arg |-> cmds[lastOp'.arg][1]]>>]_vars

CommandRunsOnceWitness ==
    /\ lastOp.name = "runCommand" /\ lastOp.arg = "strike" /\ Qualifying(sel)
    /\ trace = <<[op |-> "execCommand", arg |-> "strikeThrough"]>>

\* C10: runCommand (called directly or by a button click) expands the selection
\* iff the command requires a selection and there is none, and does so before the
\* native call; otherwise the selection is unchanged and the native command runs
\* once.
ExpandsWhenNeeded ==
    [][(/\ lastOp'.name \in {"runCommand", "click"}
        /\ (lastOp'.name = "click" => lastOp'.arg \notin {"a", "img"})) =>
          LET tag == lastOp'.arg
              need == tag \in DOMAIN cmds /\ cmds[tag][2] /\ ~Qualifying(sel)
          IN  /\ Has(trace', "expandSelection", "") <=> need
              /\ need => Index(trace', "expandSelection") < Index(trace', "execCommand")
              /\ (~need /\ tag \in DOMAIN cmds) =>
                    /\ sel' = sel
                    /\ Execs(trace') = <<[op |-> "execCommand", arg |-> cmds[tag][1]]>>]_vars

ExpandsWhenNeededWitness ==
    /\ lastOp.name = "runCommand" /\ lastOp.arg = "b"
    /\ trace = <<[op |-> "expandSelection", arg |-> ""], [op |-> "execCommand", arg |-> "bold"]>>
    /\ ~sel.collapsed /\ sel.word

\* C11: runCommand (called directly or by a button click) with a tag that is
\* missing, empty or not a key of the command table does nothing: no effect is
\* observed (no native call, no expansion, no preventDefault) and no state
\* changes.
UnknownTagIsNoop ==
    [][(/\ lastOp'.name \in {"runCommand", "click"}
        /\ lastOp'.arg \notin DOMAIN cmds \cup {"a", "img"}) =>
          /\ trace' = <<>>
          /\ UNCHANGED <<airActive, barClass, sel, inputValue, deb, hist, html>>]_vars

Chord(e) == IF e.shiftKey THEN "s" \o ToString(e.keyCode) ELSE ToString(e.keyCode)

\* C12: a keydown with the modifier held (the key not being Meta) whose chord is
\* in the keybinding table prevents the default and makes exactly one native
\* call, the command of the mapped tag; every mapped tag is in the command
\* table; any other keydown prevents no default and dispatches no command (its
\* only possible native call is the formatBlock of Enter).
ChordDispatch ==
    [][lastOp'.name = "keydown" =>
          LET e == lastOp'.e
              k == Chord(e)
              bound == e.metaKey /\ e.keyIdentifier # "Meta" /\ k \in DOMAIN keys
          IN  /\ \A x \in DOMAIN keys : keys[x] \in DOMAIN cmds
              /\ bound =>
                    /\ Has(trace', "preventDefault", "")
                    /\ Execs(trace') = <<[op |-> "execCommand", arg |-> cmds[keys[k]][1]]>>
              /\ ~bound =>
                    /\ ~Has(trace', "preventDefault", "")
                    /\ ~Has(trace', "expandSelection", "")
                    /\ \A i \in 1..Len(Execs(trace')) :
                          Execs(trace')[i].arg = "formatBlock" /\ e.keyCode = 13]_vars

ChordDispatchWitness ==
    /\ lastOp.name = "keydown"
    /\ lastOp.e.keyCode = 55 /\ lastOp.e.metaKey /\ lastOp.e.shiftKey
    /\ trace = <<[op |-> "preventDefault", arg |-> ""],
                 [op |-> "execCommand", arg |-> "insertOrderedList"]>>

\* C13: hasSelection() returns the selection exactly when it is non-collapsed
\* and within the element, and a falsy value otherwise; it changes neither the
\* selection nor any state of the editor.
HasSelectionContract ==
    [][lastOp'.name = "hasSelection" =>
          /\ ret' = (IF ~sel.collapsed /\ sel.within THEN <<sel>> ELSE <<>>)
          /\ trace' = <<>>
          /\ UNCHANGED <<airActive, barClass, sel, inputValue, deb, hist, html>>]_vars

HasSelectionContractWitness ==
    /\ lastOp.name = "hasSelection" /\ ret = <<>>
    /\ ~sel.collapsed /\ ~sel.within

\* C14: sync() writes the minified content into the input, if there is one,
\* before it dispatches editor_sync, and onSync runs once after that; without an
\* input it writes nothing; save() runs onSave once and never writes the input.
SyncWritesFirst ==
    [][/\ lastOp'.name = "sync" =>
            /\ trace' = (IF opts.input THEN <<[op |-> "input.value", arg |-> ""]>> ELSE <<>>)
                          \o <<[op |-> "dispatchEvent", arg |-> "editor_sync"],
                               [op |-> "callback", arg |-> "onSync"]>>
            /\ inputValue' = (IF opts.input THEN minifyHTML(html) ELSE inputValue)
       /\ lastOp'.name = "save" =>
            /\ trace' = <<[op |-> "dispatchEvent", arg |-> "editor_save"],
                          [op |-> "callback", arg |-> "onSave"]>>
            /\ inputValue' = inputValue]_vars

SyncWritesFirstWitness ==
    /\ lastOp.name = "sync" /\ opts.input
    /\ html = <<"<p>", "x", "&nbsp;", " ", "x", "<br>", "</p>", "TAB", "<div>", "</div>">>
    /\ inputValue = <<"<p>", "x", " ", "x", "</p>">>
    /\ trace[1].op = "input.value" /\ trace[3] = [op |-> "callback", arg |-> "onSync"]

\* C17: the constructor throws exactly when the node is not an element node or
\* contentEditable is not supported, and then no field of the instance is set
\* and no listener is attached (no operation of the editor is possible).
ConstructionThrows ==
    /\ [](/\ phase = "threw" <=> (lastOp.name = "Editor" /\ lastOp.arg # "1+")
          /\ phase = "threw" =>
                /\ cfg = Defaults /\ opts = Defaults /\ buttons = {}
                /\ \A w \in Verbs : deb[w].wait = 0 /\ deb[w].timeout = NoTimer
                /\ ~airActive /\ trace = <<>>)
    /\ [][phase = "threw" => UNCHANGED vars]_vars

ConstructionThrowsWitness ==
    phase = "threw" /\ lastOp.arg = "1-"

\* C19: airActive is true iff the airbar carries the class 'active'; without an
\* airbar airActive is never true and showAirbar, hideAirbar and toggleAirbar do
\* nothing.
FlagMatchesClass ==
    /\ [](Ready => /\ airActive <=> barClass
                   /\ ~opts.airbar => ~airActive)
    /\ [][(lastOp'.name \in {"showAirbar", "hideAirbar", "toggleAirbar"} /\ ~opts.airbar) =>
             /\ trace' = <<>>
             /\ UNCHANGED <<airActive, barClass, sel, inputValue, deb, hist, html>>]_vars

FlagMatchesClassWitness ==
    /\ opts.airbar /\ airActive /\ barClass
    /\ lastOp.name = "focus" /\ Has(trace, "classList.add", "active")

Pos(t, op, arg) == CHOOSE i \in 1..Len(t) : t[i] = [op |-> op, arg |-> arg]

\* C20: a blur towards one of the collected buttons does nothing at all; any
\* other blur runs sync() (the input, if any, gets the minified content and
\* onSync runs), then hideAirbar(), then the user's onBlur.
BlurToButtonIgnored ==
    [][lastOp'.name = "blur" =>
          IF lastOp'.arg \in buttons
          THEN /\ trace' = <<>>
               /\ UNCHANGED <<airActive, barClass, sel, inputValue, deb, hist, html>>
          ELSE /\ inputValue' = (IF opts.input THEN minifyHTML(html) ELSE inputValue)
               /\ ~airActive'
               /\ Has(trace', "callback", "onSync")
               /\ trace'[Len(trace')] = [op |-> "callback", arg |-> "onBlur"]
               /\ Pos(trace', "callback", "onSync") < Len(trace')
               /\ airActive =>
                     /\ Has(trace', "classList.remove", "active")
                     /\ Pos(trace', "callback", "onSync")
                           < Pos(trace', "classList.remove", "active")
                     /\ Pos(trace', "classList.remove", "active") < Len(trace')]_vars

BlurToButtonIgnoredWitness ==
    /\ lastOp.name = "blur" /\ lastOp.arg = "airbarBtn" /\ lastOp.arg \in buttons
    /\ airActive /\ trace = <<>>

\* C18: a debounced listener has at most one timer pending, its `timeout` is
\* set exactly while one is; a request made while the timer is pending sets no
\* timer and only records the time of the call; the function runs at most once
\* for a burst.
OneTimerPerWrapper ==
    /\ [](\A w \in Verbs :
            /\ Cardinality(deb[w].pending) <= 1
            /\ deb[w].pending = (IF deb[w].timeout = NoTimer THEN {} ELSE {deb[w].timeout})
            /\ hist[w].fires <= 1)
    /\ [][\A w \in Verbs :
            (lastOp'.name = "keydown" /\ deb[w].pending # {}) =>
                /\ deb'[w].pending = deb[w].pending
                /\ deb'[w].timeout = deb[w].timeout
                /\ deb'[w].time = now]_vars

OneTimerPerWrapperWitness ==
    \E w \in Verbs :
        /\ lastOp.name = "later" /\ lastOp.arg = w /\ Has(trace, "setTimeout", w)
        /\ Cardinality(deb[w].pending) = 1
        /\ hist[w].len >= 2 /\ hist[w].fires = 0

\* C15: minifyHTML is idempotent: minifyHTML() called after setHTML(m), m the
\* result of minifyHTML(), returns m again.
MinifyIdempotent ==
    [][(/\ lastOp.name = "setHTML" /\ lastOp.arg = "minifyHTML"
        /\ lastOp'.name = "minifyHTML") => ret' = ret]_vars

HasScriptTag(s) == \E i \in 1..Len(s) : IsOpen(s[i]) \/ IsClose(s[i])
HasBlock(s) == \E i, j \in 1..Len(s) : i < j /\ IsOpen(s[i]) /\ IsClose(s[j])

\* C16: safeHTML() returns the content without its script blocks and leaves the
\* content alone: for content A + open + B + close + C, A without opening tag
\* and B without closing tag, it returns A followed by what it returns for C
\* (C itself when C has no script tag); content without a block is returned
\* unchanged; no block is left in the result.
SafeHtmlStrips ==
    [][lastOp'.name = "safeHTML" =>
          LET r == ret'[1]
              n == Len(html)
          IN  /\ html' = html
              /\ ~HasBlock(r)
              /\ ~HasBlock(html) => r = html
              /\ \A i, j \in 1..n :
                    (/\ i < j /\ IsOpen(html[i]) /\ IsClose(html[j])
                     /\ \A k \in 1..(i - 1) : ~IsOpen(html[k])
                     /\ \A k \in (i + 1)..(j - 1) : ~IsClose(html[k])) =>
                        LET A == SubSeq(html, 1, i - 1)
                            C == SubSeq(html, j + 1, n)
                        IN  /\ r = A \o safeHTML(C)
                            /\ ~HasScriptTag(C) => r = A \o C]_vars

SafeHtmlStripsWitness ==
    /\ lastOp.name = "safeHTML"
    /\ html = <<"<script>", "x", "</script>", "<p>">>
    /\ ret = << <<"<p>">> >>

\* the last step was the timer of the key listener of type t running the
\* user's callback
KeyFired(t) ==
    /\ lastOp.name = "keylater" /\ lastOp.arg = t
    /\ Has(trace, "callback", funk(t))

\* C21: when the timer of a key listener runs the user's callback, it runs it
\* once, with the arguments made from the event of the most recent call of the
\* listener; the events of the earlier calls are not delivered.
LastCallWins ==
    [][\A t \in KeyTypes :
          (lastOp'.name = "keylater" /\ lastOp'.arg = t /\ Has(trace', "callback", funk(t))) =>
              /\ trace' = <<[op |-> "callback", arg |-> funk(t)]>>
              /\ keyhist'[t].got = keyEvent(keyhist[t].last)
              /\ keyhist'[t].got[1] = keyhist[t].last
              /\ keyhist'[t].last = keyhist[t].last]_vars

LastCallWinsWitness ==
    \E t \in KeyTypes :
        /\ KeyFired(t)
        /\ keyhist[t].differ
        /\ keyhist[t].got = keyEvent(keyhist[t].last)
        /\ keyhist[t].last = Key(65, FALSE, FALSE, "", FALSE)

\* C22: every keydown whose chord is bound runs its command in the same step,
\* whatever timer is pending, and no key event runs a user callback in its own
\* step; per burst of events of a type the callback has not run while the timer
\* is pending and has run once when it is idle again, no earlier than the
\* throttle interval after the last event; an event or a timer of one type
\* leaves the closure and the timer of the other types alone, and a timer runs
\* the callback of its type exactly when the last event of that type is at
\* least the interval ago.
KeyCallbacksDebounced ==
    /\ [](Ready =>
            \A t \in KeyTypes :
                /\ keyhist[t].time # NoTime =>
                       keyhist[t].fires = (IF keydeb[t].timeout = NoTimer THEN 1 ELSE 0)
                /\ KeyFired(t) => now - keyhist[t].time >= opts.throttle)
    /\ [][/\ lastOp'.name \in KeyTypes =>
                /\ \A t \in KeyTypes : ~Has(trace', "callback", funk(t))
                /\ \A u \in KeyTypes \ {lastOp'.name} :
                      keydeb'[u] = keydeb[u] /\ keyhist'[u] = keyhist[u]
          /\ (/\ lastOp'.name = "keydown"
              /\ lastOp'.e.metaKey /\ lastOp'.e.keyIdentifier # "Meta"
              /\ Chord(lastOp'.e) \in DOMAIN keys) =>
                Execs(trace') = <<[op |-> "execCommand",
                                   arg |-> cmds[keys[Chord(lastOp'.e)]][1]]>>
          /\ lastOp'.name = "keylater" =>
                LET t == lastOp'.arg
                IN  /\ Has(trace', "callback", funk(t)) <=>
                           now - keyhist[t].time >= opts.throttle
                    /\ \A u \in KeyTypes \ {t} :
                          keydeb'[u] = keydeb[u] /\ keyhist'[u] = keyhist[u]]_vars

KeyCallbacksDebouncedWitness ==
    /\ KeyFired("keydown")
    /\ keyhist["keydown"].differ /\ keyhist["keydown"].fires = 1
    /\ keyhist["keydown"].last = Key(66, TRUE, FALSE, "", FALSE)
    /\ keydeb["keyup"].timeout # NoTimer /\ keyhist["keyup"].time < keyhist["keydown"].time
    /\ keyhist["keypress"].fires = 1 /\ keyhist["keypress"].time = keyhist["keydown"].time

====
